---- MODULE Spec2Model ----
(***************************************************************************)
(* Model of rss_reader/components/news.py: the News feed-item class.       *)
(*                                                                         *)
(* Text is a sequence of tokens; every whitespace character and every ANSI *)
(* escape code is a token of its own, so that rstrip() and the removal of  *)
(* colour codes are computed on the text and not assumed.                  *)
(* Python's None-able values are records [some, val].                      *)
(***************************************************************************)
EXTENDS Integers, Sequences, FiniteSets, TLC

VARIABLES
    pc,          \* position of the constructor call in progress
    item,        \* self.item: the raw fragment (live path) or the cached dict
    news,        \* the object built on the live path (self.* attributes)
    doc,         \* document_data of __parse_description, rewritten in place
    idx,         \* loop position in the list being iterated
    raised,      \* exception that left News.__init__, "" if none
    cached,      \* the object built on the cache path
    probed,      \* the network: every requests.head() sent, with its answer
    cacheStore   \* the cache: every record handed to cache.cache_news

vars == <<pc, item, news, doc, idx, raised, cached, probed, cacheStore>>

(***************************************************************************)
(* Bounds of the model.                                                    *)
(***************************************************************************)
MaxLinks == 3        \* images + enclosures + media:content of one fragment
MaxYear == 2025      \* publication years run from MinYear to MaxYear

MinYear == MaxYear - 4

(***************************************************************************)
(* None-able values.                                                       *)
(***************************************************************************)
None(empty) == [some |-> FALSE, val |-> empty]
Some(v) == [some |-> TRUE, val |-> v]
NoneText == None(<<>>)
NoneAttr == "<None>"       \* None where the value is an attribute string
Missing == "<missing>"     \* an attribute the element does not carry

\* Python truthiness of a None-able string or dict
Truthy(o) == o.some /\ o.val # <<>>

\* the text of an attribute string ("" has no characters)
Tok(s) == IF s = "" THEN <<>> ELSE <<s>>

Whitespace == {" ", "\n"}

\* str.rstrip()
RECURSIVE rstrip(_)
rstrip(s) ==
    IF s # <<>> /\ s[Len(s)] \in Whitespace
    THEN rstrip(SubSeq(s, 1, Len(s) - 1))
    ELSE s

(***************************************************************************)
(* Dates: dateutil.parser.parse and datetime.strftime('%a, %d %b %G %X').  *)
(***************************************************************************)
WeekdayAbbr == <<"Mon", "Tue", "Wed", "Thu", "Fri", "Sat", "Sun">>
MonthAbbr == <<"Jan", "Feb", "Mar", "Apr", "May", "Jun",
               "Jul", "Aug", "Sep", "Oct", "Nov", "Dec">>

IsLeap(y) == (y % 4 = 0 /\ y % 100 # 0) \/ y % 400 = 0

DaysInMonth(y, m) ==
    IF m = 2 THEN (IF IsLeap(y) THEN 29 ELSE 28)
    ELSE IF m \in {4, 6, 9, 11} THEN 30 ELSE 31

RECURSIVE DaysBeforeMonth(_, _)
DaysBeforeMonth(y, m) ==
    IF m = 1 THEN 0 ELSE DaysBeforeMonth(y, m - 1) + DaysInMonth(y, m - 1)

\* days before 1 January of year y, counted from 1 January of year 1
DaysBeforeYear(y) ==
    (y - 1) * 365 + ((y - 1) \div 4) - ((y - 1) \div 100) + ((y - 1) \div 400)

\* datetime.toordinal(): 1 January of year 1 is day 1, a Monday
Ordinal(d) == DaysBeforeYear(d.year) + DaysBeforeMonth(d.year, d.month) + d.day

\* datetime.isoweekday(): Monday is 1, Sunday is 7
IsoWeekday(d) == ((Ordinal(d) + 6) % 7) + 1

\* ordinal of the Monday that starts ISO week 1 of year y: the week with 4 January
IsoWeek1Monday(y) ==
    LET jan4 == [year |-> y, month |-> 1, day |-> 4]
    IN  Ordinal(jan4) - (IsoWeekday(jan4) - 1)

\* %Y: the calendar year
CalendarYear(d) == d.year

\* %G: the ISO 8601 week-based year
IsoYear(d) ==
    IF Ordinal(d) < IsoWeek1Monday(d.year) THEN d.year - 1
    ELSE IF Ordinal(d) >= IsoWeek1Monday(d.year + 1) THEN d.year + 1
    ELSE d.year

\* %d: day of the month, zero padded
TwoDigits(n) == IF n < 10 THEN "0" \o ToString(n) ELSE ToString(n)

\* the text of a pubDate / published element for date d at wall time t
DateText(d, t) ==
    <<WeekdayAbbr[IsoWeekday(d)], ",", " ", TwoDigits(d.day), " ",
      MonthAbbr[d.month], " ", ToString(d.year), " ", t, " ", "GMT">>

Years == MinYear .. MaxYear

\* dateutil.parser.parse on such a text: day, month, year and time are read
\* from the text, the weekday name is not used
parse(text) ==
    [year  |-> CHOOSE y \in Years : ToString(y) = text[8],
     month |-> CHOOSE m \in 1 .. 12 : MonthAbbr[m] = text[6],
     day   |-> CHOOSE n \in 1 .. 31 : TwoDigits(n) = text[4],
     time  |-> text[10]]

\* datetime.strftime(date, '%a, %d %b %G %X')
strftime(date) ==
    <<WeekdayAbbr[IsoWeekday(date)], ",", " ", TwoDigits(date.day), " ",
      MonthAbbr[date.month], " ", ToString(IsoYear(date)), " ", date.time>>

(***************************************************************************)
(* The dict self.links: insertion ordered, a sequence of <<key, value>>.   *)
(***************************************************************************)
dict_len(d) == Len(d)

dict_keys(d) == {d[k][1] : k \in 1 .. Len(d)}

\* d[key] = value: an existing key keeps its place, a new key goes last
dict_set(d, key, value) ==
    IF key \in dict_keys(d)
    THEN [k \in 1 .. Len(d) |-> IF d[k][1] = key THEN <<key, value>> ELSE d[k]]
    ELSE Append(d, <<key, value>>)

\* off by one: positions counted from 1
item_position_from_one(links) == dict_len(links) + 1

\* the key under which the extraction steps store the next link
\* (item_position = len(self.links); self.links[len(self.links)] = ...)
item_position(links) == dict_len(links)

\* the link descriptors written by the three extraction steps
image_link(image, image_type) ==
    [enclosure |-> FALSE, media |-> FALSE, type |-> image_type,
     url |-> image.src, attributes |-> Some(image.alt)]

enclosure_link(enclosure, enclosure_type) ==
    [enclosure |-> TRUE, media |-> FALSE, type |-> enclosure_type,
     url |-> enclosure.url, attributes |-> None("")]

media_content_link(media_content, media_content_type) ==
    [enclosure |-> FALSE, media |-> TRUE, type |-> media_content_type,
     url |-> media_content.url, attributes |-> None("")]

(***************************************************************************)
(* The network: the answer to one requests.head() call.                    *)
(***************************************************************************)
TransportError == [raises |-> TRUE, content_type |-> NoneAttr]
Answer(h) == [raises |-> FALSE, content_type |-> h]
Responses == {TransportError, Answer(NoneAttr), Answer("image/png")}

\* the declared type preferred to the reported one
get_content_type_declared_first(content, response) ==
    IF content.type # Missing THEN content.type
    ELSE IF response.content_type # NoneAttr THEN response.content_type
    ELSE "unknown"

\* News.__get_content_type, once requests.head(content['url']) has returned
get_content_type(content, response) ==
    LET content_type == response.content_type
    IN  IF content_type = NoneAttr
        THEN (IF content.type = Missing THEN "unknown" ELSE content.type)
        ELSE content_type

\* the alt text left out of the token
image_token_without_alt(position, alt) == <<"[image", " ", ToString(position), "]", " ">>

\* the text that replaces an inline image
image_token(position, alt) ==
    <<"[image", " ", ToString(position)>>
        \o (IF alt # "" THEN <<":", " ">> \o Tok(alt) \o <<"]", " ">> ELSE <<"]", " ">>)

\* BeautifulSoup: document_data.find_all('img'), as positions in the document
find_all_img(nodes) == SelectSeq([k \in 1 .. Len(nodes) |-> k], LAMBDA k : nodes[k].kind = "img")

\* BeautifulSoup: document_data.text
RECURSIVE document_text(_)
document_text(nodes) ==
    IF nodes = <<>> THEN <<>>
    ELSE (IF Head(nodes).kind = "text" THEN Head(nodes).text ELSE <<>>)
             \o document_text(Tail(nodes))

TextNode(t) == [kind |-> "text", text |-> t, url |-> Missing, src |-> Missing, alt |-> Missing]
ImgNode(u, s, a) == [kind |-> "img", text |-> <<>>, url |-> u, src |-> s, alt |-> a]

(***************************************************************************)
(* Rendering: to_dict, __format_links, colorize_string, __str__.           *)
(***************************************************************************)
colors == [cyan |-> "ESC[1;36m", yellow |-> "ESC[1;33m", red |-> "ESC[1;31m", reset |-> "ESC[0m"]

colorize_string(string, color) == <<colors[color]>> \o string \o <<colors["reset"]>>

RECURSIVE join(_, _)
join(sep, ss) ==
    IF ss = <<>> THEN <<>>
    ELSE IF Len(ss) = 1 THEN ss[1]
    ELSE ss[1] \o sep \o join(sep, Tail(ss))

format_links(self) ==
    <<"\n">> \o join(<<"\n">>,
                    [k \in 1 .. Len(self.links.val) |->
                        <<"[", ToString(self.links.val[k][1]), "]", " ">>
                            \o Tok(self.links.val[k][2].url) \o <<" ", "(">>
                            \o Tok(self.links.val[k][2].type) \o <<")">>])

to_dict(self) ==
    [title |-> self.title,
     url |-> self.link,
     description |-> self.description,
     date |-> self.formatted_date,
     links |-> IF Truthy(self.links) THEN self.links ELSE None(<<>>)]

str(self) ==
    IF self.to_colorized_format
    THEN rstrip(
           <<"[">> \o colorize_string(self.feed_title, "red") \o <<"]", " ">>
               \o colorize_string(self.title, "yellow") \o <<"\n">>
           \o colorize_string(<<"Date:">>, "cyan") \o <<" ">>
               \o colorize_string(self.formatted_date, "yellow") \o <<"\n">>
           \o colorize_string(<<"Link:">>, "cyan") \o <<" ">> \o self.link \o <<"\n", "\n">>
           \o (IF Truthy(self.description)
               THEN colorize_string(self.description.val, "yellow") ELSE <<>>)
               \o <<"\n", "\n">>
           \o (IF Truthy(self.links)
               THEN colorize_string(<<"Links:">>, "cyan") \o format_links(self) ELSE <<>>))
    ELSE rstrip(
           <<"[">> \o self.feed_title \o <<"]", " ">> \o self.title \o <<"\n">>
           \o <<"Date:", " ">> \o self.formatted_date \o <<"\n">>
           \o <<"Link:", " ">> \o self.link \o <<"\n", "\n">>
           \o (IF Truthy(self.description) THEN self.description.val ELSE <<>>)
               \o <<"\n", "\n">>
           \o (IF Truthy(self.links) THEN <<"Links:">> \o format_links(self) ELSE <<>>))

(***************************************************************************)
(* The inputs: raw fragments and cached dicts.                             *)
(***************************************************************************)
\* the j-th inline image of a description: probe address in url, address in src
ImgUrl(j) == "http://cdn/u" \o ToString(j)
ImgSrc(j) == "http://y/i" \o ToString(j) \o ".png"
ImgVariants(j) ==
    {ImgNode(ImgUrl(j), ImgSrc(j), "cat"),    \* url, src and alt text
     ImgNode(ImgUrl(j), ImgSrc(j), ""),       \* empty alt text
     ImgNode(Missing, ImgSrc(j), ""),         \* <img src=... alt=''>: no url attribute
     ImgNode(ImgUrl(j), ImgSrc(j), Missing),  \* no alt attribute
     ImgNode(ImgUrl(j), Missing, "cat")}      \* no src attribute

\* the j-th enclosure and media:content element: with or without a declared
\* type, or without a url attribute
EnclosureVariants(j) ==
    {[url |-> "http://x/e" \o ToString(j) \o ".mp3", type |-> t] : t \in {Missing, "audio/mpeg"}}
        \cup {[url |-> Missing, type |-> "audio/mpeg"]}
MediaVariants(j) ==
    {[url |-> "http://x/m" \o ToString(j) \o ".mp4", type |-> t] : t \in {Missing, "video/mp4"}}
        \cup {[url |-> Missing, type |-> "video/mp4"]}

\* the sequences of n elements whose j-th element is one of the j-th variants
RECURSIVE ImgSeqs(_)
ImgSeqs(n) ==
    IF n = 0 THEN {<<>>}
    ELSE {Append(s, v) : s \in ImgSeqs(n - 1), v \in ImgVariants(n)}

RECURSIVE EnclosureSeqs(_)
EnclosureSeqs(n) ==
    IF n = 0 THEN {<<>>}
    ELSE {Append(s, v) : s \in EnclosureSeqs(n - 1), v \in EnclosureVariants(n)}

RECURSIVE MediaSeqs(_)
MediaSeqs(n) ==
    IF n = 0 THEN {<<>>}
    ELSE {Append(s, v) : s \in MediaSeqs(n - 1), v \in MediaVariants(n)}

Hi == TextNode(<<"hi", " ">>)

\* descriptions with n inline images
Descriptions(n) ==
    IF n = 0
    THEN {None(<<>>), Some(<<>>), Some(<<Hi>>), Some(<<TextNode(<<"hi">>)>>)}
    ELSE {Some(<<Hi>> \o imgs \o tail) :
              imgs \in ImgSeqs(n), tail \in {<<>>, <<TextNode(<<".">>)>>}}

Fragment(t, l, d, pub, published, enc, med) ==
    [title |-> t, link |-> l, description |-> d, pubDate |-> pub,
     published |-> published, enclosure |-> enc, media_content |-> med]

TitleA == Some(<<"A">>)
LinkX == Some(<<"http://x">>)
Jan2 == [year |-> MaxYear - 2, month |-> 1, day |-> 2]
Clock == "10:00:00"

Dates ==
    {d \in [year : Years, month : {1, 2, 6, 12}, day : {1, 2, 3, 4, 15, 28, 29, 30, 31}] :
        d.day <= DaysInMonth(d.year, d.month)}

\* fragments that differ in their links
LinkItems ==
    UNION {UNION {UNION {
        {Fragment(TitleA, LinkX, d, Some(DateText(Jan2, Clock)), NoneText, enc, med) :
            d \in Descriptions(n), enc \in EnclosureSeqs(m),
            med \in MediaSeqs(k)}
        : k \in 0 .. MaxLinks - n - m} : m \in 0 .. MaxLinks - n} : n \in 0 .. MaxLinks}

\* fragments that differ in their publication date
DateItems ==
    {Fragment(TitleA, LinkX, NoneText, pub, NoneText, <<>>, <<>>) :
        pub \in {Some(DateText(d, Clock)) : d \in Dates}}

\* fragments that differ in the required fields they carry
FieldItems ==
    {Fragment(t, l, d, dates[1], dates[2], enc, <<>>) :
        t \in {NoneText, TitleA}, l \in {NoneText, LinkX},
        d \in {NoneText} \cup Descriptions(1),
        dates \in {<<NoneText, NoneText>>,
                   <<Some(DateText(Jan2, Clock)), NoneText>>,
                   <<NoneText, Some(DateText(Jan2, Clock))>>,
                   <<Some(DateText(Jan2, Clock)),
                     Some(DateText([Jan2 EXCEPT !.day = 3], Clock))>>},
        enc \in EnclosureSeqs(0) \cup EnclosureSeqs(1)}

RawItems == LinkItems \cup DateItems \cup FieldItems

\* cached dicts that no live run of this model produced
SampleCached ==
    {[title |-> <<"B">>, url |-> <<"http://b">>, description |-> NoneText,
      date |-> <<"yesterday">>, links |-> None(<<>>)],
     [title |-> <<"B">>, url |-> <<"http://b">>, description |-> Some(<<"text", " ">>),
      date |-> <<"Mon", ",", " ", "02">>,
      links |-> Some(<<<<0, [enclosure |-> TRUE, media |-> FALSE, type |-> "audio/mpeg",
                               url |-> "http://b/e.mp3", attributes |-> None("")]>>>>)],
     \* a corrupt entry: no 'date' key
     [title |-> <<"B">>, url |-> <<"http://b">>, description |-> NoneText,
      links |-> None(<<>>)]}

(***************************************************************************)
(* The state before any News object is constructed.                        *)
(***************************************************************************)
NoDate == [year |-> 0, month |-> 0, day |-> 0, time |-> ""]

\* an object none of whose attributes is assigned yet
NoObject ==
    [status |-> "none", feed_title |-> <<>>, to_colorized_format |-> FALSE,
     item |-> None(<<>>), links |-> None(<<>>), title |-> <<>>, link |-> <<>>,
     description |-> NoneText, date |-> NoDate, formatted_date |-> <<>>]

FeedTitle == <<"Feed">>

Init ==
    /\ pc = "idle"
    /\ item = None(<<>>)
    /\ news = NoObject
    /\ doc = <<>>
    /\ idx = 0
    /\ raised = ""
    /\ cached = NoObject
    /\ probed = <<>>
    /\ cacheStore = <<>>

\* an exception leaves News.__init__: no object results
Raise(exception) ==
    /\ pc' = "raised"
    /\ raised' = exception
    /\ news' = [news EXCEPT !.status = "failed"]

\* requests.head(url) is sent and answered by response
head(url, response) == probed' = Append(probed, [url |-> url, response |-> response])

(***************************************************************************)
(* News.__init__ on a raw fragment, lines 25-36: the attributes of the     *)
(* call, self.links = {}, self.item.title.text and self.item.link.text.    *)
(***************************************************************************)
NewsInit(fragment, to_colorized_format) ==
    /\ pc = "idle"
    /\ news.status = "none"
    /\ cached.status = "none"
    /\ item' = Some(fragment)
    /\ IF ~fragment.title.some \/ ~fragment.link.some
       THEN \* None has no attribute 'text'
            /\ pc' = "raised"
            /\ raised' = "AttributeError"
            /\ news' = [news EXCEPT !.status = "failed",
                                    !.feed_title = FeedTitle,
                                    !.to_colorized_format = to_colorized_format,
                                    !.links = Some(<<>>),
                                    !.title = IF fragment.title.some
                                              THEN fragment.title.val ELSE @]
       ELSE /\ pc' = "description"
            /\ raised' = raised
            /\ news' = [news EXCEPT !.status = "building",
                                    !.feed_title = FeedTitle,
                                    !.to_colorized_format = to_colorized_format,
                                    !.links = Some(<<>>),
                                    !.title = fragment.title.val,
                                    !.link = fragment.link.val]
    /\ UNCHANGED <<doc, idx, cached, probed, cacheStore>>

(***************************************************************************)
(* News.__parse_description, lines 46-48: parse the description and find   *)
(* its images; without a description the method returns None.              *)
(***************************************************************************)
ParseDescription ==
    /\ pc = "description"
    /\ IF item.val.description.some
       THEN /\ doc' = item.val.description.val
            /\ idx' = 1
            /\ pc' = "image"
            /\ news' = news
       ELSE /\ news' = [news EXCEPT !.description = NoneText]
            /\ pc' = "date"
            /\ UNCHANGED <<doc, idx>>
    /\ UNCHANGED <<item, raised, cached, probed, cacheStore>>

(***************************************************************************)
(* One turn of the loop of __parse_description, lines 49-55.               *)
(***************************************************************************)
ParseImage(response) ==
    /\ pc = "image"
    /\ idx <= Len(find_all_img(item.val.description.val))
    /\ LET at == find_all_img(item.val.description.val)[idx]
           image == item.val.description.val[at]
           position == item_position(news.links.val)
       IN  IF image.url = Missing
           THEN Raise("KeyError") /\ UNCHANGED <<doc, idx, probed>>
           ELSE /\ head(image.url, response)
                /\ IF response.raises
                   THEN Raise("ConnectionError") /\ UNCHANGED <<doc, idx>>
                   ELSE IF \/ response.content_type = NoneAttr
                           \/ image.src = Missing
                           \/ image.alt = Missing
                   THEN Raise("KeyError") /\ UNCHANGED <<doc, idx>>
                   ELSE /\ news' = [news EXCEPT !.links = Some(dict_set(
                                       news.links.val, position,
                                       image_link(image, response.content_type)))]
                        /\ doc' = [doc EXCEPT ![at] = TextNode(image_token(position, image.alt))]
                        /\ idx' = idx + 1
                        /\ UNCHANGED <<pc, raised>>
    /\ UNCHANGED <<item, cached, cacheStore>>

\* line 56: return document_data.text
ParseDescriptionReturn ==
    /\ pc = "image"
    /\ idx > Len(find_all_img(item.val.description.val))
    /\ news' = [news EXCEPT !.description = Some(document_text(doc))]
    /\ pc' = "date"
    /\ UNCHANGED <<item, doc, idx, raised, cached, probed, cacheStore>>

(***************************************************************************)
(* News.__parse_date, lines 58-64, and line 39: the formatted date.        *)
(***************************************************************************)
ParseDate ==
    /\ pc = "date"
    /\ IF ~item.val.pubDate.some /\ ~item.val.published.some
       THEN Raise("UnboundLocalError") /\ idx' = idx
       ELSE LET date == IF item.val.pubDate.some
                        THEN item.val.pubDate.val ELSE item.val.published.val
            IN  /\ news' = [news EXCEPT !.date = parse(date),
                                        !.formatted_date = strftime(parse(date))]
                /\ pc' = "enclosure"
                /\ idx' = 1
                /\ raised' = raised
    /\ UNCHANGED <<item, doc, cached, probed, cacheStore>>

(***************************************************************************)
(* News.__parse_enclosure, lines 103-107: one turn of the loop, with       *)
(* __get_content_type (lines 128-134) called on the enclosure.             *)
(***************************************************************************)
ParseEnclosure(response) ==
    /\ pc = "enclosure"
    /\ idx <= Len(item.val.enclosure)
    /\ LET enclosure == item.val.enclosure[idx]
       IN  IF enclosure.url = Missing
           THEN Raise("KeyError") /\ UNCHANGED <<idx, probed>>
           ELSE
           /\ head(enclosure.url, response)
           /\ IF response.raises
              THEN Raise("ConnectionError") /\ idx' = idx
              ELSE /\ news' = [news EXCEPT !.links = Some(dict_set(
                                  news.links.val, item_position(news.links.val),
                                  enclosure_link(enclosure,
                                                 get_content_type(enclosure, response))))]
                   /\ idx' = idx + 1
                   /\ UNCHANGED <<pc, raised>>
    /\ UNCHANGED <<item, doc, cached, cacheStore>>

\* the loop of __parse_enclosure ends; line 41 calls __parse_media_content
ParseEnclosureReturn ==
    /\ pc = "enclosure"
    /\ idx > Len(item.val.enclosure)
    /\ pc' = "media"
    /\ idx' = 1
    /\ UNCHANGED <<item, news, doc, raised, cached, probed, cacheStore>>

(***************************************************************************)
(* News.__parse_media_content, lines 111-115: one turn of the loop.        *)
(***************************************************************************)
ParseMediaContent(response) ==
    /\ pc = "media"
    /\ idx <= Len(item.val.media_content)
    /\ LET media_content == item.val.media_content[idx]
       IN  IF media_content.url = Missing
           THEN Raise("KeyError") /\ UNCHANGED <<idx, probed>>
           ELSE
           /\ head(media_content.url, response)
           /\ IF response.raises
              THEN Raise("ConnectionError") /\ idx' = idx
              ELSE /\ news' = [news EXCEPT !.links = Some(dict_set(
                                  news.links.val, item_position(news.links.val),
                                  media_content_link(media_content,
                                                     get_content_type(media_content, response))))]
                   /\ idx' = idx + 1
                   /\ UNCHANGED <<pc, raised>>
    /\ UNCHANGED <<item, doc, cached, cacheStore>>

\* Cache.cache_news(news): the cache keeps the record's dictionary form
cache_news(store, self) == Append(store, to_dict(self))

\* the loop of __parse_media_content ends; line 42: self.cache.cache_news(self)
CacheNews ==
    /\ pc = "media"
    /\ idx > Len(item.val.media_content)
    /\ cacheStore' = cache_news(cacheStore, news)
    /\ news' = [news EXCEPT !.status = "built"]
    /\ pc' = "done"
    /\ UNCHANGED <<item, doc, idx, raised, cached, probed>>

(***************************************************************************)
(* News.__init__ on a dict, lines 25-32, and News.__from_cache, lines      *)
(* 95-99.  The dict is the to_dict() of the record built on the live path, *)
(* or a stored one.                                                        *)
(***************************************************************************)
CachedItems ==
    IF pc = "done" THEN {to_dict(news)}
    ELSE IF pc = "idle" THEN SampleCached
    ELSE {}

\* the links of the cached dict not taken over
from_cache_without_links(self, d) ==
    [self EXCEPT !.status = "built",
                 !.links = Some(<<>>),
                 !.title = d.title,
                 !.link = d.url,
                 !.description = d.description,
                 !.formatted_date = d.date]

from_cache(self, d) ==
    [self EXCEPT !.status = "built",
                 !.links = d.links,
                 !.title = d.title,
                 !.link = d.url,
                 !.description = d.description,
                 !.formatted_date = d.date]

\* the cache path falling through to line 42 and caching the record again
FromCacheAndCacheNews(d, to_colorized_format) ==
    /\ pc \in {"idle", "done"}
    /\ cached.status = "none"
    /\ d \in CachedItems
    /\ {"links", "title", "url", "description", "date"} \subseteq DOMAIN d
    /\ cached' = from_cache([cached EXCEPT !.feed_title = FeedTitle,
                                           !.to_colorized_format = to_colorized_format,
                                           !.item = Some(d)], d)
    /\ cacheStore' = cache_news(cacheStore, cached')
    /\ UNCHANGED <<pc, item, news, doc, idx, raised, probed>>

FromCache(d, to_colorized_format) ==
    /\ pc \in {"idle", "done"}
    /\ cached.status = "none"
    /\ d \in CachedItems
    /\ LET self == [cached EXCEPT !.feed_title = FeedTitle,
                                  !.to_colorized_format = to_colorized_format,
                                  !.item = Some(d)]
       IN  IF {"links", "title", "url", "description", "date"} \subseteq DOMAIN d
           THEN cached' = from_cache(self, d)
           ELSE cached' = [self EXCEPT !.status = "KeyError"]
    /\ UNCHANGED <<pc, item, news, doc, idx, raised, probed, cacheStore>>

\* a caller constructs a News from a raw fragment
NewsFromFragment ==
    /\ pc = "idle"
    /\ \E fragment \in RawItems, flag \in BOOLEAN : NewsInit(fragment, flag)

\* a caller constructs a News from a cached dict
NewsFromDict ==
    /\ pc \in {"idle", "done"}
    /\ \E d \in CachedItems, flag \in BOOLEAN : FromCache(d, flag)

Next ==
    \/ NewsFromFragment
    \/ ParseDescription
    \/ \E response \in Responses : ParseImage(response)
    \/ ParseDescriptionReturn
    \/ ParseDate
    \/ \E response \in Responses : ParseEnclosure(response)
    \/ ParseEnclosureReturn
    \/ \E response \in Responses : ParseMediaContent(response)
    \/ CacheNews
    \/ NewsFromDict

Spec == Init /\ [][Next]_vars

(***************************************************************************)
(* Helpers of the properties.                                              *)
(***************************************************************************)
Fragments == item.val
Images == [k \in 1 .. Len(find_all_img(Fragments.description.val)) |->
              Fragments.description.val[find_all_img(Fragments.description.val)[k]]]
Ended == pc \in {"done", "raised"}
LinkKeys == dict_keys(news.links.val)
LinkAt(key) == news.links.val[CHOOSE k \in 1 .. Len(news.links.val) : news.links.val[k][1] = key][2]

\* the elements of the fragment in extraction order, as <<kind, url>>
ExtractionOrder ==
    [k \in 1 .. Len(Images) |-> <<"image", Images[k].src>>]
        \o [k \in 1 .. Len(Fragments.enclosure) |-> <<"enclosure", Fragments.enclosure[k].url>>]
        \o [k \in 1 .. Len(Fragments.media_content) |-> <<"media", Fragments.media_content[k].url>>]

KindOf(link) ==
    IF link.enclosure THEN "enclosure" ELSE IF link.media THEN "media" ELSE "image"

(***************************************************************************)
(* C1: when live normalization of a fragment with N inline images, M       *)
(* enclosures and K media:content elements completes, the keys of the link *)
(* table are exactly 0..N+M+K-1, key i holds the i-th element in the order *)
(* images, enclosures, media:content (each in document order), and no step *)
(* overwrites or moves an entry that is already in the table.              *)
(***************************************************************************)
C1_TableComplete ==
    news.status = "built" =>
        /\ LinkKeys = 0 .. (Len(Images) + Len(Fragments.enclosure)
                                + Len(Fragments.media_content)) - 1
        /\ Len(news.links.val) = Cardinality(LinkKeys)
        /\ \A k \in 1 .. Len(news.links.val) : news.links.val[k][1] = k - 1
        /\ \A i \in LinkKeys :
              <<KindOf(LinkAt(i)), LinkAt(i).url>> = ExtractionOrder[i + 1]

\* normalization of a fragment with its required fields fails only where a
\* probe did not succeed: it raised, it returned no content type for an
\* image, or the element lacks the attribute it is probed or stored by
ProbeFailed ==
    \/ (probed # <<>> /\ probed[Len(probed)].response.raises)
    \/ /\ pc = "raised" /\ news.links.some /\ Fragments.description.some
       /\ ~news.description.some
       /\ idx \in 1 .. Len(Images)
       /\ \/ Missing \in {Images[idx].url, Images[idx].src, Images[idx].alt}
          \/ (probed # <<>> /\ probed[Len(probed)].response.content_type = NoneAttr)
    \/ \E e \in {Fragments.enclosure[k] : k \in 1 .. Len(Fragments.enclosure)}
                \cup {Fragments.media_content[k] : k \in 1 .. Len(Fragments.media_content)} :
          e.url = Missing

C1_FailsOnlyOnProbe ==
    (pc = "raised" /\ ~(~Fragments.title.some \/ ~Fragments.link.some
                           \/ (~Fragments.pubDate.some /\ ~Fragments.published.some)))
        => ProbeFailed

C1_AppendOnly ==
    /\ Len(news'.links.val) >= Len(news.links.val)
    /\ \A k \in 1 .. Len(news.links.val) : news'.links.val[k] = news.links.val[k]

C2_RoundTripRenders ==
    (news.status = "built" /\ cached.status = "built" /\ cached.item = Some(to_dict(news))) =>
        \A flag \in BOOLEAN :
            str([cached EXCEPT !.to_colorized_format = flag])
                = str([news EXCEPT !.to_colorized_format = flag])

C2_Witness ==
    /\ news.status = "built"
    /\ cached.status = "built"
    /\ cached.item = Some(to_dict(news))
    /\ news.links = Some(<<>>)
    /\ ~cached.links.some
    /\ ~news.description.some

(***************************************************************************)
(* C3: a probe that fails at transport level does not end normalization    *)
(* with an exception: the link is stored with the declared type, or        *)
(* "unknown", and the constructor goes on.                                 *)
(***************************************************************************)
Elements ==
    {Fragments.enclosure[k] : k \in 1 .. Len(Fragments.enclosure)}
        \cup {Fragments.media_content[k] : k \in 1 .. Len(Fragments.media_content)}
ImageSet == {Images[k] : k \in 1 .. Len(Images)}

\* the address probed for the element a link was made from
ProbedFor(link) ==
    IF KindOf(link) = "image"
    THEN (CHOOSE image \in ImageSet : image.src = link.url).url
    ELSE link.url

\* the declared type of the element a link was made from, else "unknown"
DeclaredOrUnknown(link) ==
    IF KindOf(link) = "image" THEN "unknown"
    ELSE LET declared == (CHOOSE e \in Elements : e.url = link.url).type
         IN  IF declared = Missing THEN "unknown" ELSE declared

\* C3: a transport failure of a probe is absorbed
C3_ProbeFailureAbsorbed ==
    \A k \in 1 .. Len(probed) :
        probed[k].response.raises =>
            /\ raised = ""
            /\ \E i \in LinkKeys :
                  /\ ProbedFor(LinkAt(i)) = probed[k].url
                  /\ LinkAt(i).type = DeclaredOrUnknown(LinkAt(i))

(***************************************************************************)
(* C4: the type stored for an enclosure or media:content element is the    *)
(* content-type header of its probe when the probe returned one, else the  *)
(* element's declared type when it has one, else "unknown".                *)
(***************************************************************************)
AnswerFor(link) ==
    probed[CHOOSE k \in 1 .. Len(probed) : probed[k].url = ProbedFor(link)].response

\* C4: header, else declared type, else "unknown"
C4_StoredContentType ==
    \A i \in LinkKeys :
        KindOf(LinkAt(i)) # "image" =>
            LinkAt(i).type =
                IF AnswerFor(LinkAt(i)).content_type # NoneAttr
                THEN AnswerFor(LinkAt(i)).content_type
                ELSE DeclaredOrUnknown(LinkAt(i))

C4_Witness ==
    \E i \in LinkKeys :
        /\ KindOf(LinkAt(i)) = "enclosure"
        /\ (CHOOSE e \in Elements : e.url = LinkAt(i).url).type = "audio/mpeg"
        /\ AnswerFor(LinkAt(i)).content_type = "image/png"
        /\ LinkAt(i).type = "image/png"

(***************************************************************************)
(* C5: in the description text every registered inline image stands as     *)
(* the token "[image i: ALT]", or "[image i]" when the alt text is empty,  *)
(* i being its index in the link table.  The original claim: nothing is    *)
(* added after the token; as amended: the token is followed by one space.  *)
(***************************************************************************)
ClaimedToken(i, alt) ==
    <<"[image", " ", ToString(i)>>
        \o (IF alt = "" THEN <<>> ELSE <<":", " ", alt>>) \o <<"]">>

\* the text of the nodes with every image replaced by its token and `after`
RECURSIVE Rewritten(_, _)
Rewritten(nodes, after) ==
    IF nodes = <<>> THEN <<>>
    ELSE IF Head(nodes).kind = "img"
    THEN ClaimedToken((CHOOSE i \in LinkKeys : LinkAt(i).url = Head(nodes).src), Head(nodes).alt)
             \o after \o Rewritten(Tail(nodes), after)
    ELSE Head(nodes).text \o Rewritten(Tail(nodes), after)

DescriptionParsed == news.description.some /\ news.status \in {"building", "built"}

\* every registered image stands in the document as its token and `after`,
\* and the description returned is the text of the document rewritten so
Replaced(after) ==
    /\ \A j \in 1 .. Len(Images) :
          \A i \in LinkKeys :
              (KindOf(LinkAt(i)) = "image" /\ LinkAt(i).url = Images[j].src) =>
                  doc[find_all_img(Fragments.description.val)[j]]
                      = TextNode(ClaimedToken(i, Images[j].alt) \o after)
    /\ DescriptionParsed =>
          news.description.val = Rewritten(Fragments.description.val, after)

LacksRequiredField ==
    \/ ~Fragments.title.some
    \/ ~Fragments.link.some
    \/ (~Fragments.pubDate.some /\ ~Fragments.published.some)

MalformedItemError == {"AttributeError", "UnboundLocalError"}

\* C6: a fragment without a required field ends in the malformed-item error
C6_MalformedItemRejected ==
    (item.some /\ Ended /\ LacksRequiredField) =>
        /\ raised \in MalformedItemError
        /\ news.status # "built"
        /\ cacheStore = <<>>

(***************************************************************************)
(* C7: the probe for an inline image goes to the address stored in its     *)
(* link entry (its src), and a probe answered without a content-type       *)
(* header gives the entry the type "unknown" and lets normalization go on. *)
(***************************************************************************)
\* C7: image probes go to src; no header gives "unknown"
C7_ImageTypeResolved ==
    \A k \in 1 .. Len(probed) :
        (\E image \in ImageSet : image.url = probed[k].url) =>
            /\ \E image \in ImageSet : image.src = probed[k].url
            /\ (~probed[k].response.raises /\ probed[k].response.content_type = NoneAttr) =>
                  /\ raised = ""
                  /\ \E i \in LinkKeys :
                        /\ KindOf(LinkAt(i)) = "image"
                        /\ ProbedFor(LinkAt(i)) = probed[k].url
                        /\ LinkAt(i).type = "unknown"

(***************************************************************************)
(* C8: the cache path takes title, url, description, formatted date and    *)
(* links from the cached dict as they are, sends no probe and writes       *)
(* nothing to the cache.                                                   *)
(***************************************************************************)
C8_FieldsAsCached ==
    cached.status = "built" =>
        /\ cached.title = cached.item.val.title
        /\ cached.link = cached.item.val.url
        /\ cached.description = cached.item.val.description
        /\ cached.formatted_date = cached.item.val.date
        /\ cached.links = cached.item.val.links
        /\ cached.date = NoDate

C8_NoEffect == cached' # cached => (probed' = probed /\ cacheStore' = cacheStore)

\* C8: the cache path copies the dict and touches neither network nor cache
C8_CachePathIsPure == [](C8_FieldsAsCached) /\ [][C8_NoEffect]_vars

C8_Witness ==
    /\ cached.status = "built"
    /\ Truthy(cached.links)
    /\ news.status = "built"
    /\ Len(probed) >= 1

(***************************************************************************)
(* C9: the year of formatted_date is the calendar year of the parsed date. *)
(***************************************************************************)
\* C9: formatted_date carries the calendar year
C9_CalendarYear ==
    news.formatted_date # <<>> =>
        news.formatted_date =
            <<WeekdayAbbr[IsoWeekday(news.date)], ",", " ", TwoDigits(news.date.day), " ",
              MonthAbbr[news.date.month], " ", ToString(CalendarYear(news.date)), " ",
              news.date.time>>

(***************************************************************************)
(* C10: the colorized rendering of a record, its colour and reset codes    *)
(* removed, is the plain rendering of the record, and neither ends in      *)
(* whitespace.                                                             *)
(***************************************************************************)
AnsiCodes == {colors[c] : c \in DOMAIN colors}
StripAnsi(s) == SelectSeq(s, LAMBDA t : t \notin AnsiCodes)
EndsInWhitespace(s) == s # <<>> /\ s[Len(s)] \in Whitespace

RendersAlike(self) ==
    LET coloured == StripAnsi(str([self EXCEPT !.to_colorized_format = TRUE]))
        plain == str([self EXCEPT !.to_colorized_format = FALSE])
    IN  /\ coloured = plain
        /\ ~EndsInWhitespace(coloured)
        /\ ~EndsInWhitespace(plain)

\* C10: colorized text without its codes is the plain text
C10_ColorizedIsPlainWithCodes ==
    /\ news.status = "built" => RendersAlike(news)
    /\ cached.status = "built" => RendersAlike(cached)

====
